---------------------------- MODULE Spec2Model ----------------------------
(***************************************************************************)
(* PASETO v3 / v4 / v4x token primitives of zntr.io/paseto.                *)
(*                                                                         *)
(* Byte strings are sequences of integers 0..255.  A token is a Go string, *)
(* modelled as the sequence of its ASCII bytes.  A Go return pair          *)
(* (value, error) is a record [val, err]; err = "ok" is a nil error and    *)
(* err = "panic" is a run-time panic (slice bounds out of range).          *)
(*                                                                         *)
(* The cryptographic primitives of the Go standard library and of x/crypto *)
(* (HKDF, HMAC-SHA384, BLAKE2b, BLAKE3, AES-CTR, XChaCha20, Ed25519,       *)
(* ECDSA) are modelled as deterministic keyed digests of the right output  *)
(* length (operator Digest): equal inputs give equal outputs and, on the   *)
(* inputs explored here, different inputs give different outputs.          *)
(***************************************************************************)
EXTENDS Integers, Sequences, FiniteSets, Bags, TLC

(***************************************************************************)
(* Bounds of the explored inputs.                                          *)
(***************************************************************************)
MaxPayloadLen == 2
MaxFooterLen == 1
MaxImplicitLen == 1

(***************************************************************************)
(* State of the caller (see "The caller" below): the primitive and key in  *)
(* use, the entropy reader, the two Encrypt / Sign calls made, the Decrypt *)
(* / Verify call made, and the caller's position; lib is the last call of  *)
(* a library function made on its own (see "Library calls" below); calls   *)
(* holds the calls of callers that share the key or the entropy reader.    *)
(***************************************************************************)
VARIABLES prim, heldKey, rng, first, second, res, pc, lib, calls

vars == <<prim, heldKey, rng, first, second, res, pc, lib, calls>>

(***************************************************************************)
(* Program constants.                                                      *)
(***************************************************************************)
KeyLength == 32
nonceLength == 32
macLengthV3 == 48
kdfOutputLength == 48
signatureSize == 96
macLengthV4 == 32
encryptionKDFLengthV4 == 56
authenticationKeyLengthV4 == 32
macLengthV4x == 32
encryptionKDFLengthV4x == 56
Ed25519SignatureSize == 64

\* ASCII bytes of the header strings.
LocalPrefixV3 == <<118, 51, 46, 108, 111, 99, 97, 108, 46>>
PublicPrefixV3 == <<118, 51, 46, 112, 117, 98, 108, 105, 99, 46>>
LocalPrefixV4 == <<118, 52, 46, 108, 111, 99, 97, 108, 46>>
PublicPrefixV4 == <<118, 52, 46, 112, 117, 98, 108, 105, 99, 46>>
LocalPrefixV4x == <<118, 52, 120, 46, 108, 111, 99, 97, 108, 46>>

DOT == 46

(***************************************************************************)
(* Go return values.                                                       *)
(***************************************************************************)
Ok(v) == [val |-> v, err |-> "ok"]
Err(e) == [val |-> <<>>, err |-> e]
Panic == [val |-> <<>>, err |-> "panic"]

(***************************************************************************)
(* Byte-string helpers.                                                    *)
(***************************************************************************)
Zeros(n) == [k \in 1..n |-> 0]

\* s[lo:hi] of Go, 0-based half-open; callers guard 0 <= lo <= hi <= Len(s).
Slice(s, lo, hi) == SubSeq(s, lo + 1, hi)

\* bytes.HasPrefix
HasPrefix(s, p) == Len(s) >= Len(p) /\ SubSeq(s, 1, Len(p)) = p

\* bytes.Index(s, ".") : 0-based index of the first '.', -1 when absent.
IndexDot(s) ==
  IF \E k \in 1..Len(s) : s[k] = DOT
  THEN (CHOOSE k \in 1..Len(s) : s[k] = DOT /\ \A j \in 1..(k - 1) : s[j] # DOT) - 1
  ELSE -1

\* subtle.ConstantTimeCompare(x, y) == 1
ConstantTimeCompare(x, y) == Len(x) = Len(y) /\ \A k \in 1..Len(x) : x[k] = y[k]

\* XOR of two bytes, bit by bit.
RECURSIVE XorBits(_, _, _)
XorBits(a, b, n) ==
  IF n = 0 THEN 0
  ELSE ((a + b) % 2) + 2 * XorBits(a \div 2, b \div 2, n - 1)

XorByte(a, b) == XorBits(a, b, 8)

\* cipher.XORKeyStream(dst, src) with the given key stream.
XORKeyStream(ks, src) == [k \in 1..Len(src) |-> XorByte(src[k], ks[k])]

(***************************************************************************)
(* encoding/base64 RawURLEncoding (URL alphabet, no padding, not strict).  *)
(***************************************************************************)
\* The ASCII byte of a 6-bit value.
Enc6(v) ==
  IF v < 26 THEN 65 + v
  ELSE IF v < 52 THEN 97 + (v - 26)
  ELSE IF v < 62 THEN 48 + (v - 52)
  ELSE IF v = 62 THEN 45
  ELSE 95

\* The 6-bit value of an ASCII byte, 255 (0xff of decodeMap) when the byte is
\* not in the alphabet.
Dec6(ch) ==
  IF ch >= 65 /\ ch <= 90 THEN ch - 65
  ELSE IF ch >= 97 /\ ch <= 122 THEN ch - 97 + 26
  ELSE IF ch >= 48 /\ ch <= 57 THEN ch - 48 + 52
  ELSE IF ch = 45 THEN 62
  ELSE IF ch = 95 THEN 63
  ELSE 255

EncodedLen(n) == (n * 8 + 5) \div 6
DecodedLen(n) == (n * 6) \div 8

\* Encode: each group of three bytes gives four characters; a tail of one
\* byte gives two characters and a tail of two bytes gives three, the bytes
\* missing from the last group counting as zero.
Base64Encode(b) ==
  LET at(idx) == IF idx <= Len(b) THEN b[idx] ELSE 0 IN
  [j \in 1..EncodedLen(Len(b)) |->
     LET g == (j - 1) \div 4
         w == (j - 1) % 4
         b0 == at(3 * g + 1)
         b1 == at(3 * g + 2)
         b2 == at(3 * g + 3)
     IN Enc6(IF w = 0 THEN b0 \div 4
             ELSE IF w = 1 THEN (b0 % 4) * 16 + b1 \div 16
             ELSE IF w = 2 THEN (b1 % 16) * 4 + b2 \div 64
             ELSE b2 % 64)]

\* '\n' and '\r' are skipped by the decoder.
IsNewline(ch) == ch = 10 \/ ch = 13

\* decodeQuantum: each group of four 6-bit values gives three bytes; a tail
\* of two values gives one byte and a tail of three gives two.  The unused
\* low bits of the tail are dropped without being checked (the encoding is
\* not Strict()).
B64Dec(v) ==
  LET at(idx) == IF idx <= Len(v) THEN v[idx] ELSE 0 IN
  [j \in 1..DecodedLen(Len(v)) |->
     LET g == (j - 1) \div 3
         w == (j - 1) % 3
         v0 == at(4 * g + 1)
         v1 == at(4 * g + 2)
         v2 == at(4 * g + 3)
         v3 == at(4 * g + 4)
     IN IF w = 0 THEN v0 * 4 + v1 \div 16
        ELSE IF w = 1 THEN (v1 % 16) * 16 + v2 \div 4
        ELSE (v2 % 4) * 64 + v3]

\* buf := make([]byte, DecodedLen(len(src))); _, err := Decode(buf, src).
\* The result is the buffer (the decoded bytes, zero-filled up to
\* DecodedLen) and whether Decode reported CorruptInputError.
Base64Decode(src) ==
  LET kept == SelectSeq(src, LAMBDA ch : ~IsNewline(ch))
      vals == [k \in 1..Len(kept) |-> Dec6(kept[k])]
      bad == (\E k \in 1..Len(vals) : vals[k] = 255) \/ Len(vals) % 4 = 1
      out == B64Dec(vals)
      n == DecodedLen(Len(src))
  IN IF bad THEN [err |-> TRUE, buf |-> Zeros(n)]
     ELSE [err |-> FALSE, buf |-> out \o Zeros(n - Len(out))]

(***************************************************************************)
(* internal/common: pre-authentication encoding.                           *)
(***************************************************************************)
\* binary.LittleEndian.PutUint64
RECURSIVE LEBytes(_, _)
LEBytes(n, w) == IF w = 0 THEN <<>> ELSE <<n % 256>> \o LEBytes(n \div 256, w - 1)

\* LE64 with the bytes in big-endian order.
BE64(n) == [k \in 1..8 |-> LEBytes(n, 8)[9 - k]]

LE64(n) == LEBytes(n, 8)

\* PaePieces without the length in front of each piece.
RECURSIVE PaePiecesUnframed(_, _)
PaePiecesUnframed(pieces, k) ==
  IF k > Len(pieces) THEN <<>>
  ELSE pieces[k] \o PaePiecesUnframed(pieces, k + 1)

RECURSIVE PaePieces(_, _)
PaePieces(pieces, k) ==
  IF k > Len(pieces) THEN <<>>
  ELSE LE64(Len(pieces[k])) \o pieces[k] \o PaePieces(pieces, k + 1)

PreAuthenticationEncoding(pieces) == LE64(Len(pieces)) \o PaePieces(pieces, 1)

(***************************************************************************)
(* Library primitives.  Digest absorbs the input bytes into three          *)
(* polynomials modulo the prime 257, evaluated at 3, 5 and 7, and squeezes *)
(* size bytes out of them; dom separates the primitives from each other.   *)
(***************************************************************************)
RECURSIVE PowMod(_, _)
PowMod(a, n) ==
  IF n = 0 THEN 1
  ELSE LET h == PowMod(a, n \div 2)
       IN (h * h * (IF n % 2 = 1 THEN a ELSE 1)) % 257

\* The powers of the three evaluation points, for inputs of up to 511 bytes.
PowTable == [a \in {3, 5, 7} |-> [n \in 0..511 |-> PowMod(a, n)]]

\* init * a^L plus the polynomial with the coefficients data[k] + 1 at the
\* point a, modulo 257.  No term of the sum is 0 modulo 257, so the terms
\* are the counts of a bag and BagCardinality is their sum.
Absorb(init, data, a) ==
  LET L == Len(data)
      terms == [k \in 1..L |-> ((data[k] + 1) * PowTable[a][L - k]) % 257]
  IN (init * PowTable[a][L] + (IF L = 0 THEN 0 ELSE BagCardinality(terms))) % 257

Squeeze(acc, size) ==
  [k \in 1..size |->
     IF k = 1 THEN acc[1] % 256
     ELSE IF k = 2 THEN acc[2] % 256
     ELSE IF k = 3 THEN acc[3] % 256
     ELSE IF k = 4 THEN (acc[1] \div 256) + 2 * (acc[2] \div 256)
                        + 4 * (acc[3] \div 256)
     ELSE (acc[1] * k + acc[2] * (k + 1) + acc[3] * (k + 2) + k) % 256]

Digest(dom, size, data) ==
  Squeeze(<<Absorb(dom, data, 3), Absorb(dom + 1, data, 5),
            Absorb(dom + 2, data, 7)>>, size)

\* io.ReadFull(hkdf.New(sha512.New384, key, nil, info), out[0:size])
HkdfSha384(key, info, size) == Digest(1, size, key \o info)

\* hmac.New(sha512.New384, key); Write(msg); Sum(nil)
HmacSha384(key, msg) == Digest(2, 48, key \o msg)

\* sha512.Sum384
Sha384(msg) == Digest(3, 48, msg)

\* blake2b.New(size, key); Write(msg); Sum(nil)
Blake2b(size, key, msg) == Digest(4, size, key \o msg)

\* blake3.New(size, key); Write(msg); Sum(nil)
Blake3(size, key, msg) == Digest(5, size, key \o msg)

\* The first size bytes of the AES-256-CTR key stream of (ek, iv).
AesCtrKeyStream(ek, iv, size) == Digest(6, size, ek \o iv)

\* The 64-byte XChaCha20 key-stream block of (ek, nonce) at a block counter.
ChaChaBlock(ek, nonce, counter) == Digest(7, 64, ek \o nonce \o <<counter>>)

\* size bytes of the XChaCha20 key stream from byte position pos on.
ChaChaKeyStream(ek, nonce, pos, size) ==
  LET blk == ChaChaBlock(ek, nonce, pos \div 64) IN
  [k \in 1..size |->
     LET p == pos + k - 1 IN
     IF p \div 64 = pos \div 64 THEN blk[(p % 64) + 1]
     ELSE ChaChaBlock(ek, nonce, p \div 64)[(p % 64) + 1]]

\* big.Int: the value of a big-endian byte string is the string without
\* its leading zero bytes, which is also what Bytes() returns.
RECURSIVE StripLeadingZeros(_)
StripLeadingZeros(b) ==
  IF Len(b) > 0 /\ b[1] = 0 THEN StripLeadingZeros(Tail(b)) ELSE b

BigSetBytes(b) == StripLeadingZeros(b)

\* Key material.  A nil key (nil pointer, nil slice) is the empty sequence.
NilKey == <<>>
NilEcdsaKey == [D |-> <<>>, X |-> <<>>, Y |-> 0]
LocalKeyA == [k \in 1..32 |-> 111 + k]
LocalKeyB == [k \in 1..32 |-> (7 * k) % 256]
LocalKeys == {LocalKeyA, LocalKeyB}

\* ed25519: a private key is seed || public key.
Ed25519Public(seed) == Digest(9, 32, seed)
Ed25519Private(seed) == seed \o Ed25519Public(seed)
Ed25519Seeds == {[k \in 1..32 |-> 179 + k], [k \in 1..32 |-> (3 * k) % 256]}
Ed25519Keys == {Ed25519Private(seed) : seed \in Ed25519Seeds}

\* ed25519.Sign(sk, msg); it panics on a key that is not 64 bytes long, which
\* the callers below test before they use it.
Ed25519Sign(sk, msg) == Digest(8, Ed25519SignatureSize, SubSeq(sk, 1, 32) \o msg)

\* ed25519.Verify(pk, msg, sig)
Ed25519Verify(pk, msg, sig) ==
  \E sk \in Ed25519Keys : SubSeq(sk, 33, 64) = pk /\ sig = Ed25519Sign(sk, msg)

\* ecdsa P-384: a private key is [D, X, Y], the scalar and the public point
\* (X is 48 bytes wide, Y is kept by its parity); a public key is [X, Y].
EcdsaPrivate(d) == [D |-> d, X |-> Digest(11, 48, d), Y |-> Digest(12, 1, d)[1] % 2]
EcdsaPublic(sk) == [X |-> sk.X, Y |-> sk.Y]
\* The second scalar is one for which a 47-byte r and a 47-byte s occur among
\* the explored messages.
EcdsaScalars == {[k \in 1..48 |-> 31 + k], [k \in 1..48 |-> (27 * k) % 256]}
EcdsaKeys == {EcdsaPrivate(d) : d \in EcdsaScalars}

\* elliptic.MarshalCompressed(elliptic.P384(), X, Y) : 49 bytes.
MarshalCompressed(X, Y) == <<2 + Y>> \o X

\* rfc6979.SignECDSA(sk, digest, sha512.New384) : the pair (r, s) as big.Int
\* values, a deterministic function of the key and the digest.  About one
\* value in 256 has a zero most significant byte.
SignECDSA(sk, digest) ==
  [r |-> BigSetBytes(Digest(13, 48, sk.D \o digest)),
   s |-> BigSetBytes(Digest(14, 48, sk.D \o digest))]

\* ecdsa.Verify(pub, digest, r, s)
EcdsaVerify(pub, digest, r, s) ==
  \E sk \in EcdsaKeys :
     /\ EcdsaPublic(sk) = pub
     /\ SignECDSA(sk, digest) = [r |-> r, s |-> s]

\* io.ReadFull(r, buf[0:n]) on a reader that still holds the bytes r.
\* ReadFull that takes a short read for a full one.
ReadFullPartial(r, n) ==
  IF Len(r) >= n
  THEN [ok |-> TRUE, data |-> SubSeq(r, 1, n), rest |-> SubSeq(r, n + 1, Len(r))]
  ELSE [ok |-> TRUE, data |-> r \o Zeros(n - Len(r)), rest |-> <<>>]

\* io.ReadFull(r, buf[:n]).  A reader is the bytes it yields before it ends
\* or reports a read error; fewer than n bytes make ReadFull return an error.
ReadFull(r, n) ==
  IF Len(r) >= n
  THEN [ok |-> TRUE, data |-> SubSeq(r, 1, n), rest |-> SubSeq(r, n + 1, Len(r))]
  ELSE [ok |-> FALSE, data |-> r \o Zeros(n - Len(r)), rest |-> <<>>]

\* copy(buf[off:], data) and Encode(buf[off:], data) : overwrite from off on.
WriteAt(buf, off, data) ==
  [k \in 1..Len(buf) |->
     IF k > off /\ k <= off + Len(data) THEN data[k - off] ELSE buf[k]]

\* Error messages.
ErrKeyNil == "paseto: key is nil"
ErrKeyLength == "paseto: invalid key length"
ErrSeed == "paseto: unable to generate random seed"
ErrTokenBlank == "paseto: token is blank"
ErrInputNil == "paseto: input is nil"
ErrInvalidToken == "paseto: invalid token"
ErrFooterMissing == "paseto: invalid token, footer is missing but expected"
ErrFooterEncoding == "paseto: invalid token, footer has invalid encoding"
ErrFooterMismatch == "paseto: invalid token, footer mismatch"
ErrInvalidBody == "paseto: invalid token body"
ErrPreAuth == "paseto: invalid pre-authentication header"
ErrSignNilKey == "paseto: unable to sign with a nil private key"
ErrPublicKeyNil == "paseto: public key is nil"
ErrSignature == "paseto: invalid token signature"

(***************************************************************************)
(* Token framing shared by the primitives.                                 *)
(***************************************************************************)
\* Sign / Encrypt, "Encode body as RawURLBase64" to "Assemble final token":
\* the token buffer is allocated at its final size and written at offsets.
\* off is the literal offset the code writes the body at (9 or 10).
\* AssembleToken that writes the '.' and the footer segment for an empty
\* footer too.
AssembleTokenAlwaysDot(prefix, off, body, f) ==
  LET bodyLen == EncodedLen(Len(body))
      footerLen == EncodedLen(Len(f)) + 1
      tokenLen == bodyLen + footerLen
      final0 == Zeros(Len(prefix) + tokenLen)
      final1 == WriteAt(final0, 0, prefix)
      final2 == WriteAt(final1, off, Base64Encode(body))
      final3 == WriteAt(final2, off + tokenLen - footerLen, <<DOT>>)
  IN WriteAt(final3, off + tokenLen - footerLen + 1, Base64Encode(f))

AssembleToken(prefix, off, body, f) ==
  LET bodyLen == EncodedLen(Len(body))
      footerLen == EncodedLen(Len(f)) + 1
      tokenLen == IF Len(f) > 0 THEN bodyLen + footerLen ELSE bodyLen
      final0 == Zeros(Len(prefix) + tokenLen)
      final1 == WriteAt(final0, 0, prefix)
      final2 == WriteAt(final1, off, Base64Encode(body))
      final3 == WriteAt(final2, off + tokenLen - footerLen, <<DOT>>)
      final4 == WriteAt(final3, off + tokenLen - footerLen + 1, Base64Encode(f))
  IN IF Len(f) > 0 THEN final4 ELSE final2

\* FooterByIndex that cuts the token at its last '.'.
FooterByLastIndex(rawToken, f) ==
  LET dots == {k \in 1..Len(rawToken) : rawToken[k] = DOT}
      footerIdx == IF dots = {} THEN -1
                   ELSE (CHOOSE k \in dots : \A j \in dots : j <= k) - 1
      footer == Base64Decode(Slice(rawToken, footerIdx + 1, Len(rawToken)))
  IN IF footerIdx = 0 THEN Err(ErrFooterMissing)
     ELSE IF footer.err THEN Err(ErrFooterEncoding)
     ELSE IF ~ConstantTimeCompare(f, footer.buf) THEN Err(ErrFooterMismatch)
     ELSE IF footerIdx < 0 THEN Panic
     ELSE Ok(Slice(rawToken, 0, footerIdx))

\* Decrypt / Verify, "Check footer usage" with bytes.Index: the result is the
\* body segment, an error, or a panic of rawToken[:footerIdx].
FooterByIndex(rawToken, f) ==
  LET footerIdx == IndexDot(rawToken)
      footer == Base64Decode(Slice(rawToken, footerIdx + 1, Len(rawToken)))
  IN IF footerIdx = 0 THEN Err(ErrFooterMissing)
     ELSE IF footer.err THEN Err(ErrFooterEncoding)
     ELSE IF ~ConstantTimeCompare(f, footer.buf) THEN Err(ErrFooterMismatch)
     ELSE IF footerIdx < 0 THEN Panic
     ELSE Ok(Slice(rawToken, 0, footerIdx))

\* subtle.ConstantTimeEq(x, y) == 1
ConstantTimeEq(x, y) == x = y

\* SecureCompare that stops at the end of the shorter input.
SecureComparePrefix(given, actual) ==
  \A k \in 1..Len(given) : k <= Len(actual) => given[k] = actual[k]

\* SecureCompare of the common package.
SecureCompare(given, actual) ==
  IF ConstantTimeEq(Len(given), Len(actual))
  THEN ConstantTimeCompare(given, actual)
  ELSE IF ConstantTimeCompare(actual, actual) THEN FALSE ELSE FALSE

\* secureCompare of the v4 helpers.
secureCompare(given, actual) ==
  IF Len(given) = Len(actual) THEN ConstantTimeCompare(given, actual) ELSE FALSE

\* Decrypt / Verify, "Check footer usage" with bytes.SplitN(input, ".", 2).
FooterBySplit(input, f) ==
  LET idx == IndexDot(input)
      footer == Base64Decode(Slice(input, idx + 1, Len(input)))
  IN IF idx < 0 THEN Err(ErrFooterMissing)
     ELSE IF footer.err THEN Err(ErrFooterEncoding)
     ELSE IF ~secureCompare(f, footer.buf) THEN Err(ErrFooterMismatch)
     ELSE Ok(Slice(input, 0, idx))

(***************************************************************************)
(* Local keys (the same code in v3 and v4x).                               *)
(***************************************************************************)
ErrGenerateKey == "paseto: unable to generate a random key"
ErrSeedLength == "paseto: invalid seed length"

\* GenerateLocalKey that leaves the bytes of the key in the reader.
GenerateLocalKeyPeek(r) ==
  LET rd == ReadFull(r, KeyLength) IN
  IF ~rd.ok THEN [val |-> NilKey, err |-> ErrGenerateKey, rng |-> rd.rest]
  ELSE [val |-> rd.data, err |-> "ok", rng |-> r]

\* GenerateLocalKey returns the key, the error and the bytes left in the
\* reader.
GenerateLocalKey(r) ==
  LET rd == ReadFull(r, KeyLength) IN
  IF ~rd.ok THEN [val |-> NilKey, err |-> ErrGenerateKey, rng |-> rd.rest]
  ELSE [val |-> rd.data, err |-> "ok", rng |-> rd.rest]

\* LocalKeyFromSeed copying the last KeyLength bytes of the seed.
LocalKeyFromSeedTail(seed) ==
  IF Len(seed) < KeyLength THEN Err(ErrSeedLength)
  ELSE Ok(WriteAt(Zeros(KeyLength), 0, Slice(seed, Len(seed) - KeyLength, Len(seed))))

LocalKeyFromSeed(seed) ==
  IF Len(seed) < KeyLength THEN Err(ErrSeedLength)
  ELSE Ok(WriteAt(Zeros(KeyLength), 0, Slice(seed, 0, KeyLength)))

(***************************************************************************)
(* v3.local                                                                *)
(***************************************************************************)
Info(label, n) == label \o n

\* "paseto-encryption-key" and "paseto-auth-key-for-aead"
EncryptionKeyInfo ==
  <<112, 97, 115, 101, 116, 111, 45, 101, 110, 99, 114, 121, 112, 116, 105,
    111, 110, 45, 107, 101, 121>>
AuthKeyInfo ==
  <<112, 97, 115, 101, 116, 111, 45, 97, 117, 116, 104, 45, 107, 101, 121,
    45, 102, 111, 114, 45, 97, 101, 97, 100>>

kdfV3(key, n) ==
  LET tmp == HkdfSha384(key, Info(EncryptionKeyInfo, n), kdfOutputLength)
  IN [ek |-> Slice(tmp, 0, KeyLength),
      n2 |-> Slice(tmp, KeyLength, Len(tmp)),
      ak |-> HkdfSha384(key, Info(AuthKeyInfo, n), kdfOutputLength)]

\* macV3 cut to 32 bytes, the tag length of v4.
macV3Truncated(ak, h, n, c, f, i) ==
  SubSeq(HmacSha384(ak, PreAuthenticationEncoding(<<h, n, c, f, i>>)), 1, 32)

macV3(ak, h, n, c, f, i) ==
  HmacSha384(ak, PreAuthenticationEncoding(<<h, n, c, f, i>>))

\* Encrypt returns the token, the error and the bytes left in the reader.
EncryptV3(r, key, m, f, i) ==
  LET rd == ReadFull(r, nonceLength)
      n == rd.data
      k == kdfV3(key, n)
      c == XORKeyStream(AesCtrKeyStream(k.ek, k.n2, Len(m)), m)
      t == macV3(k.ak, LocalPrefixV3, n, c, f, i)
      body == n \o c \o t
  IN IF key = NilKey THEN [val |-> <<>>, err |-> ErrKeyNil, rng |-> r]
     ELSE IF Len(key) # KeyLength THEN [val |-> <<>>, err |-> ErrKeyLength, rng |-> r]
     ELSE IF ~rd.ok THEN [val |-> <<>>, err |-> ErrSeed, rng |-> rd.rest]
     ELSE [val |-> AssembleToken(LocalPrefixV3, 9, body, f), err |-> "ok",
           rng |-> rd.rest]

\* OpenV3 with the ciphertext sliced from macLength instead of nonceLength.
OpenV3SliceFromMac(key, rawToken, f, i) ==
  LET dec == Base64Decode(rawToken)
      raw == dec.buf
      n == Slice(raw, 0, nonceLength)
      t == Slice(raw, Len(raw) - macLengthV3, Len(raw))
      c == Slice(raw, macLengthV3, Len(raw) - macLengthV3)
      k == kdfV3(key, n)
      t2 == macV3(k.ak, LocalPrefixV3, n, c, f, i)
  IN IF dec.err THEN Err(ErrInvalidBody)
     ELSE IF Len(raw) < nonceLength THEN Panic
     ELSE IF Len(raw) - macLengthV3 < 0 THEN Panic
     ELSE IF macLengthV3 > Len(raw) - macLengthV3 THEN Panic
     ELSE IF ~ConstantTimeCompare(t, t2) THEN Err(ErrPreAuth)
     ELSE Ok(XORKeyStream(AesCtrKeyStream(k.ek, k.n2, Len(c)), c))

\* OpenV3 that decrypts without comparing the tags.
OpenV3NoCompare(key, rawToken, f, i) ==
  LET dec == Base64Decode(rawToken)
      raw == dec.buf
      n == Slice(raw, 0, nonceLength)
      c == Slice(raw, nonceLength, Len(raw) - macLengthV3)
      k == kdfV3(key, n)
  IN IF dec.err THEN Err(ErrInvalidBody)
     ELSE IF Len(raw) < nonceLength THEN Panic
     ELSE IF Len(raw) - macLengthV3 < 0 THEN Panic
     ELSE IF nonceLength > Len(raw) - macLengthV3 THEN Panic
     ELSE Ok(XORKeyStream(AesCtrKeyStream(k.ek, k.n2, Len(c)), c))

\* Decrypt, from "Decode token" on: the slicing of raw panics when raw is
\* shorter than the fields.
OpenV3(key, rawToken, f, i) ==
  LET dec == Base64Decode(rawToken)
      raw == dec.buf
      n == Slice(raw, 0, nonceLength)
      t == Slice(raw, Len(raw) - macLengthV3, Len(raw))
      c == Slice(raw, nonceLength, Len(raw) - macLengthV3)
      k == kdfV3(key, n)
      t2 == macV3(k.ak, LocalPrefixV3, n, c, f, i)
  IN IF dec.err THEN Err(ErrInvalidBody)
     ELSE IF Len(raw) < nonceLength THEN Panic
     ELSE IF Len(raw) - macLengthV3 < 0 THEN Panic
     ELSE IF nonceLength > Len(raw) - macLengthV3 THEN Panic
     ELSE IF ~ConstantTimeCompare(t, t2) THEN Err(ErrPreAuth)
     ELSE Ok(XORKeyStream(AesCtrKeyStream(k.ek, k.n2, Len(c)), c))

\* DecryptV3 that cuts the token at its '.' when no footer is expected and
\* takes the footer of the token as the expected one.
DecryptV3TokenFooter(key, token, f, i) ==
  LET rawToken == Slice(token, Len(LocalPrefixV3), Len(token))
      split == FooterByIndex(rawToken, f)
      footerIdx == IndexDot(rawToken)
      own == Base64Decode(Slice(rawToken, footerIdx + 1, Len(rawToken))).buf
  IN IF key = NilKey THEN Err(ErrKeyNil)
     ELSE IF Len(key) # KeyLength THEN Err(ErrKeyLength)
     ELSE IF token = <<>> THEN Err(ErrTokenBlank)
     ELSE IF ~HasPrefix(token, LocalPrefixV3) THEN Err(ErrInvalidToken)
     ELSE IF Len(f) > 0
          THEN IF split.err # "ok" THEN split
               ELSE OpenV3(key, split.val, f, i)
          ELSE IF footerIdx > 0
               THEN OpenV3(key, Slice(rawToken, 0, footerIdx), own, i)
               ELSE OpenV3(key, rawToken, f, i)

\* DecryptV3 without the test for the empty token.
DecryptV3NoBlankTest(key, token, f, i) ==
  LET rawToken == Slice(token, Len(LocalPrefixV3), Len(token))
      split == FooterByIndex(rawToken, f)
  IN IF key = NilKey THEN Err(ErrKeyNil)
     ELSE IF Len(key) # KeyLength THEN Err(ErrKeyLength)
     ELSE IF ~HasPrefix(token, LocalPrefixV3) THEN Err(ErrInvalidToken)
     ELSE IF Len(f) > 0
          THEN IF split.err # "ok" THEN split
               ELSE OpenV3(key, split.val, f, i)
          ELSE OpenV3(key, rawToken, f, i)

DecryptV3(key, token, f, i) ==
  LET rawToken == Slice(token, Len(LocalPrefixV3), Len(token))
      split == FooterByIndex(rawToken, f)
  IN IF key = NilKey THEN Err(ErrKeyNil)
     ELSE IF Len(key) # KeyLength THEN Err(ErrKeyLength)
     ELSE IF token = <<>> THEN Err(ErrTokenBlank)
     ELSE IF ~HasPrefix(token, LocalPrefixV3) THEN Err(ErrInvalidToken)
     ELSE IF Len(f) > 0
          THEN IF split.err # "ok" THEN split
               ELSE OpenV3(key, split.val, f, i)
          ELSE OpenV3(key, rawToken, f, i)

(***************************************************************************)
(* v4.local                                                                *)
(***************************************************************************)
kdfV4(key, n) ==
  LET tmp == Blake2b(encryptionKDFLengthV4, key, Info(EncryptionKeyInfo, n))
  IN [ek |-> Slice(tmp, 0, KeyLength),
      n2 |-> Slice(tmp, KeyLength, Len(tmp)),
      ak |-> Blake2b(authenticationKeyLengthV4, key, Info(AuthKeyInfo, n))]

macV4(ak, h, n, c, f, i) ==
  Blake2b(macLengthV4, ak, PreAuthenticationEncoding(<<h, n, c, f, i>>))

\* EncryptV4 with the nonce left out of the key derivation, of the tag and
\* of the body.
EncryptV4FixedNonce(r, key, m, f, i) ==
  LET rd == ReadFull(r, nonceLength)
      n == Zeros(nonceLength)
      k == kdfV4(key, n)
      c == XORKeyStream(ChaChaKeyStream(k.ek, k.n2, 0, Len(m)), m)
      t == macV4(k.ak, LocalPrefixV4, n, c, f, i)
      body == n \o c \o t
      encodedBody == Base64Encode(body)
      encodedFooter == Base64Encode(f)
  IN IF Len(key) # KeyLength THEN [val |-> <<>>, err |-> ErrKeyLength, rng |-> r]
     ELSE IF ~rd.ok THEN [val |-> <<>>, err |-> ErrSeed, rng |-> rd.rest]
     ELSE [val |-> IF f # <<>>
                   THEN LocalPrefixV4 \o encodedBody \o <<DOT>> \o encodedFooter
                   ELSE LocalPrefixV4 \o encodedBody,
           err |-> "ok", rng |-> rd.rest]

EncryptV4(r, key, m, f, i) ==
  LET rd == ReadFull(r, nonceLength)
      n == rd.data
      k == kdfV4(key, n)
      c == XORKeyStream(ChaChaKeyStream(k.ek, k.n2, 0, Len(m)), m)
      t == macV4(k.ak, LocalPrefixV4, n, c, f, i)
      body == n \o c \o t
      encodedBody == Base64Encode(body)
      encodedFooter == Base64Encode(f)
  IN IF Len(key) # KeyLength THEN [val |-> <<>>, err |-> ErrKeyLength, rng |-> r]
     ELSE IF ~rd.ok THEN [val |-> <<>>, err |-> ErrSeed, rng |-> rd.rest]
     ELSE [val |-> IF f # <<>>
                   THEN LocalPrefixV4 \o encodedBody \o <<DOT>> \o encodedFooter
                   ELSE LocalPrefixV4 \o encodedBody,
           err |-> "ok", rng |-> rd.rest]

\* Decrypt, "Extract components", for a build with the field lengths nl
\* (nonceLength) and ml (macLength): the ciphertext starts at ml.
ExtractV4(raw, nl, ml) ==
  [n |-> Slice(raw, 0, nl),
   t |-> Slice(raw, Len(raw) - ml, Len(raw)),
   c |-> Slice(raw, ml, Len(raw) - ml)]

OpenV4(key, input, f, i) ==
  LET dec == Base64Decode(input)
      raw == dec.buf
      n == ExtractV4(raw, nonceLength, macLengthV4).n
      t == ExtractV4(raw, nonceLength, macLengthV4).t
      c == ExtractV4(raw, nonceLength, macLengthV4).c
      k == kdfV4(key, n)
      t2 == macV4(k.ak, LocalPrefixV4, n, c, f, i)
  IN IF dec.err THEN Err(ErrInvalidBody)
     ELSE IF Len(raw) < nonceLength THEN Panic
     ELSE IF Len(raw) - macLengthV4 < 0 THEN Panic
     ELSE IF macLengthV4 > Len(raw) - macLengthV4 THEN Panic
     ELSE IF ~secureCompare(t, t2) THEN Err(ErrPreAuth)
     ELSE Ok(XORKeyStream(ChaChaKeyStream(k.ek, k.n2, 0, Len(c)), c))

DecryptV4(key, input, f, i) ==
  LET rest == Slice(input, Len(LocalPrefixV4), Len(input))
      split == FooterBySplit(rest, f)
  IN IF key = NilKey THEN Err(ErrKeyNil)
     ELSE IF Len(key) # KeyLength THEN Err(ErrKeyLength)
     ELSE IF input = <<>> THEN Err(ErrInputNil)
     ELSE IF ~HasPrefix(input, LocalPrefixV4) THEN Err(ErrInvalidToken)
     ELSE IF f # <<>>
          THEN IF split.err # "ok" THEN split
               ELSE OpenV4(key, split.val, f, i)
          ELSE OpenV4(key, rest, f, i)

(***************************************************************************)
(* v4x.local                                                               *)
(***************************************************************************)
kdfV4x(key, n) ==
  LET tmp == Blake3(encryptionKDFLengthV4x, key, Info(EncryptionKeyInfo, n))
  IN [ek |-> Slice(tmp, 0, KeyLength), n2 |-> Slice(tmp, KeyLength, Len(tmp))]

macV4x(ak, h, n, c, f, i) ==
  Blake3(macLengthV4x, ak, PreAuthenticationEncoding(<<h, n, c, f, i>>))

\* var ak = [32]byte{0x00}; ciph.XORKeyStream(ak[:], ak[:]) on a fresh cipher
AuthKeyV4x(ek, n2) == XORKeyStream(ChaChaKeyStream(ek, n2, 0, 32), Zeros(32))

\* XORKeyStream without SetCounter(1): the key stream goes on at byte 32,
\* behind the bytes used for the auth key.
XorBehindAuthKey(ek, n2, src) ==
  XORKeyStream(ChaChaKeyStream(ek, n2, 32, Len(src)), src)

\* ciph.SetCounter(1); ciph.XORKeyStream(dst, src)
XorFromCounter1(ek, n2, src) ==
  XORKeyStream(ChaChaKeyStream(ek, n2, 64, Len(src)), src)

\* EncryptV4x reading the nonce twice: 64 bytes leave the reader.
EncryptV4xDoubleRead(r, key, m, f, i) ==
  LET rd0 == ReadFull(r, nonceLength)
      rd == ReadFull(rd0.rest, nonceLength)
      n == rd.data
      k == kdfV4x(key, n)
      ak == AuthKeyV4x(k.ek, k.n2)
      c == XorFromCounter1(k.ek, k.n2, m)
      t == macV4x(ak, LocalPrefixV4x, n, c, f, i)
      body == n \o c \o t
  IN IF key = NilKey THEN [val |-> <<>>, err |-> ErrKeyNil, rng |-> r]
     ELSE IF Len(key) # KeyLength THEN [val |-> <<>>, err |-> ErrKeyLength, rng |-> r]
     ELSE IF ~rd0.ok \/ ~rd.ok THEN [val |-> <<>>, err |-> ErrSeed, rng |-> rd.rest]
     ELSE [val |-> AssembleToken(LocalPrefixV4x, 10, body, f), err |-> "ok",
           rng |-> rd.rest]

EncryptV4x(r, key, m, f, i) ==
  LET rd == ReadFull(r, nonceLength)
      n == rd.data
      k == kdfV4x(key, n)
      ak == AuthKeyV4x(k.ek, k.n2)
      c == XorFromCounter1(k.ek, k.n2, m)
      t == macV4x(ak, LocalPrefixV4x, n, c, f, i)
      body == n \o c \o t
  IN IF key = NilKey THEN [val |-> <<>>, err |-> ErrKeyNil, rng |-> r]
     ELSE IF Len(key) # KeyLength THEN [val |-> <<>>, err |-> ErrKeyLength, rng |-> r]
     ELSE IF ~rd.ok THEN [val |-> <<>>, err |-> ErrSeed, rng |-> rd.rest]
     ELSE [val |-> AssembleToken(LocalPrefixV4x, 10, body, f), err |-> "ok",
           rng |-> rd.rest]

OpenV4x(key, rawToken, f, i) ==
  LET dec == Base64Decode(rawToken)
      raw == dec.buf
      n == Slice(raw, 0, nonceLength)
      t == Slice(raw, Len(raw) - macLengthV4x, Len(raw))
      c == Slice(raw, nonceLength, Len(raw) - macLengthV4x)
      k == kdfV4x(key, n)
      ak == AuthKeyV4x(k.ek, k.n2)
      t2 == macV4x(ak, LocalPrefixV4x, n, c, f, i)
  IN IF dec.err THEN Err(ErrInvalidBody)
     ELSE IF Len(raw) < nonceLength THEN Panic
     ELSE IF Len(raw) - macLengthV4x < 0 THEN Panic
     ELSE IF nonceLength > Len(raw) - macLengthV4x THEN Panic
     ELSE IF ~ConstantTimeCompare(t, t2) THEN Err(ErrPreAuth)
     ELSE Ok(XorFromCounter1(k.ek, k.n2, c))

DecryptV4x(key, input, f, i) ==
  LET rawToken == Slice(input, Len(LocalPrefixV4x), Len(input))
      split == FooterByIndex(rawToken, f)
  IN IF key = NilKey THEN Err(ErrKeyNil)
     ELSE IF Len(key) # KeyLength THEN Err(ErrKeyLength)
     ELSE IF input = <<>> THEN Err(ErrTokenBlank)
     ELSE IF ~HasPrefix(input, LocalPrefixV4x) THEN Err(ErrInvalidToken)
     ELSE IF Len(f) > 0
          THEN IF split.err # "ok" THEN split
               ELSE OpenV4x(key, split.val, f, i)
          ELSE OpenV4x(key, rawToken, f, i)

(***************************************************************************)
(* v3.public                                                               *)
(***************************************************************************)
SignV3(m, sk, f, i) ==
  LET pk == MarshalCompressed(sk.X, sk.Y)
      m2 == PreAuthenticationEncoding(<<pk, PublicPrefixV3, m, f, i>>)
      digest == Sha384(m2)
      sig == SignECDSA(sk, digest)
      body == m \o sig.r \o sig.s
  IN IF sk = NilEcdsaKey THEN Err(ErrSignNilKey)
     ELSE Ok(AssembleToken(PublicPrefixV3, 10, body, f))

CheckV3(rawToken, pub, f, i) ==
  LET dec == Base64Decode(rawToken)
      raw == dec.buf
      m == Slice(raw, 0, Len(raw) - signatureSize)
      sig == Slice(raw, Len(raw) - signatureSize, Len(raw))
      pk == MarshalCompressed(pub.X, pub.Y)
      m2 == PreAuthenticationEncoding(<<pk, PublicPrefixV3, m, f, i>>)
      digest == Sha384(m2)
      r == BigSetBytes(Slice(sig, 0, kdfOutputLength))
      s == BigSetBytes(Slice(sig, kdfOutputLength, Len(sig)))
  IN IF dec.err THEN Err(ErrInvalidBody)
     ELSE IF Len(raw) - signatureSize < 0 THEN Panic
     ELSE IF ~EcdsaVerify(pub, digest, r, s) THEN Err(ErrSignature)
     ELSE Ok(m)

VerifyV3(t, pub, f, i) ==
  LET rawToken == Slice(t, Len(PublicPrefixV3), Len(t))
      split == FooterByIndex(rawToken, f)
  IN IF pub = EcdsaPublic(NilEcdsaKey) THEN Err(ErrPublicKeyNil)
     ELSE IF ~HasPrefix(t, PublicPrefixV3) THEN Err(ErrInvalidToken)
     ELSE IF Len(f) > 0
          THEN IF split.err # "ok" THEN split
               ELSE CheckV3(split.val, pub, f, i)
          ELSE CheckV3(rawToken, pub, f, i)

(***************************************************************************)
(* v4.public                                                               *)
(***************************************************************************)
\* SignV4 with a signature that depends on the calls made before it.
SignV4Hedged(m, sk, f, i) ==
  LET m2 == PreAuthenticationEncoding(<<PublicPrefixV4, m, f, i>>)
      sig == Ed25519Sign(sk, m2 \o (IF pc = "start" THEN <<0>> ELSE <<1>>))
      body == m \o sig
  IN IF Len(sk) # 64 THEN Panic
     ELSE Ok(AssembleToken(PublicPrefixV4, 10, body, f))

SignV4(m, sk, f, i) ==
  LET m2 == PreAuthenticationEncoding(<<PublicPrefixV4, m, f, i>>)
      sig == Ed25519Sign(sk, m2)
      body == m \o sig
  IN IF Len(sk) # 64 THEN Panic
     ELSE Ok(AssembleToken(PublicPrefixV4, 10, body, f))

CheckV4(rawToken, pk, f, i) ==
  LET dec == Base64Decode(rawToken)
      raw == dec.buf
      m == Slice(raw, 0, Len(raw) - Ed25519SignatureSize)
      s == Slice(raw, Len(raw) - Ed25519SignatureSize, Len(raw))
      m2 == PreAuthenticationEncoding(<<PublicPrefixV4, m, f, i>>)
  IN IF dec.err THEN Err(ErrInvalidBody)
     ELSE IF Len(raw) - Ed25519SignatureSize < 0 THEN Panic
     ELSE IF Len(pk) # 32 THEN Panic
     ELSE IF ~Ed25519Verify(pk, m2, s) THEN Err(ErrSignature)
     ELSE Ok(m)

VerifyV4(t, pk, f, i) ==
  LET rawToken == Slice(t, Len(PublicPrefixV4), Len(t))
      split == FooterByIndex(rawToken, f)
  IN IF ~HasPrefix(t, PublicPrefixV4) THEN Err(ErrInvalidToken)
     ELSE IF Len(f) > 0
          THEN IF split.err # "ok" THEN split
               ELSE CheckV4(split.val, pk, f, i)
          ELSE CheckV4(rawToken, pk, f, i)

(***************************************************************************)
(* The caller: one key, one entropy reader, at most two Encrypt / Sign     *)
(* calls and one Decrypt / Verify call, on the issued token, on the issued *)
(* token with one byte changed, or on a token built by hand.               *)
(***************************************************************************)
LocalPrims == {"v3.local", "v4.local", "v4x.local"}
PublicPrims == {"v3.public", "v4.public"}
Prims == LocalPrims \cup PublicPrims

PrefixOf(p) ==
  CASE p = "v3.local" -> LocalPrefixV3
    [] p = "v4.local" -> LocalPrefixV4
    [] p = "v4x.local" -> LocalPrefixV4x
    [] p = "v3.public" -> PublicPrefixV3
    [] p = "v4.public" -> PublicPrefixV4

KeysOf(p) ==
  CASE p \in LocalPrims -> LocalKeys
    [] p = "v3.public" -> EcdsaKeys
    [] p = "v4.public" -> Ed25519Keys

\* Explored inputs: prefixes of fixed texts.
PayloadText == <<123, 34, 100, 97, 116, 97, 34, 58>>
FooterTexts == {<<123, 34, 107, 105, 100, 34, 58>>, <<91, 49, 44, 50, 93>>}
ImplicitText == <<123, 34, 116, 101, 115, 116, 34>>

Payloads == {SubSeq(PayloadText, 1, k) : k \in 0..MaxPayloadLen}
Footers == {SubSeq(t, 1, k) : t \in FooterTexts, k \in 0..MaxFooterLen}
Implicits == {SubSeq(ImplicitText, 1, k) : k \in 0..MaxImplicitLen}

\* Entropy readers: one that holds two equal 32-byte blocks and one that is
\* empty after one block.
NonceB == [k \in 1..32 |-> (37 * k) % 256]
EntropyStreams == {Zeros(64), NonceB}

StreamsOf(p) == IF p \in LocalPrims THEN EntropyStreams ELSE {Zeros(64)}

\* Seal in which Sign draws its 32 bytes from the reader too.
SealSignDraws(p, r, k, m, f, i) ==
  CASE p = "v3.local" -> EncryptV3(r, k, m, f, i)
    [] p = "v4.local" -> EncryptV4(r, k, m, f, i)
    [] p = "v4x.local" -> EncryptV4x(r, k, m, f, i)
    [] p = "v3.public" -> [rng |-> ReadFull(r, nonceLength).rest] @@ SignV3(m, k, f, i)
    [] p = "v4.public" -> [rng |-> ReadFull(r, nonceLength).rest] @@ SignV4(m, k, f, i)

\* Encrypt or Sign of the primitive; Sign has no reader and leaves it alone.
Seal(p, r, k, m, f, i) ==
  CASE p = "v3.local" -> EncryptV3(r, k, m, f, i)
    [] p = "v4.local" -> EncryptV4(r, k, m, f, i)
    [] p = "v4x.local" -> EncryptV4x(r, k, m, f, i)
    [] p = "v3.public" -> [rng |-> r] @@ SignV3(m, k, f, i)
    [] p = "v4.public" -> [rng |-> r] @@ SignV4(m, k, f, i)

\* Decrypt or Verify of the primitive; Verify takes the public key of k.
Unseal(p, k, t, f, i) ==
  CASE p = "v3.local" -> DecryptV3(k, t, f, i)
    [] p = "v4.local" -> DecryptV4(k, t, f, i)
    [] p = "v4x.local" -> DecryptV4x(k, t, f, i)
    [] p = "v3.public" -> VerifyV3(t, EcdsaPublic(k), f, i)
    [] p = "v4.public" -> VerifyV4(t, IF k = <<>> THEN <<>> ELSE SubSeq(k, 33, 64),
                                   f, i)

NoCall == [m |-> <<>>, f |-> <<>>, i |-> <<>>, n |-> <<>>, drawn |-> 0,
           val |-> <<>>, err |-> "none"]
NoLib == [op |-> "none"]
NoCalls == <<>>
NoRes == [tok |-> <<>>, f |-> <<>>, i |-> <<>>, how |-> "none", by |-> "none",
          val |-> <<>>, err |-> "none"]

\* The record of one Encrypt / Sign call: its arguments, the 32 bytes the
\* reader held first, the number of bytes the call drew, and its result.
CallRecord(out, r, m, f, i) ==
  [m |-> m, f |-> f, i |-> i, n |-> ReadFull(r, nonceLength).data,
   drawn |-> Len(r) - Len(out.rng), val |-> out.val, err |-> out.err]

\* The record of one Decrypt / Verify call; by is the primitive called.
ResRecord(out, tok, f, i, how) ==
  [tok |-> tok, f |-> f, i |-> i, how |-> how, by |-> prim, val |-> out.val,
   err |-> out.err]

\* The part of a token after the prefix and before the first '.', and the
\* part after that '.'.
Tail0(tok, p) == Slice(tok, Len(PrefixOf(p)), Len(tok))
BodySegment(tok, p) ==
  LET t == Tail0(tok, p) IN
  IF IndexDot(t) < 0 THEN t ELSE Slice(t, 0, IndexDot(t))
HasFooterSection(tok, p) == IndexDot(Tail0(tok, p)) >= 0
DecodedBody(tok, p) == Base64Decode(BodySegment(tok, p)).buf

Init ==
  /\ prim \in Prims
  /\ heldKey \in KeysOf(prim)
  /\ rng \in StreamsOf(prim)
  /\ first = NoCall
  /\ second = NoCall
  /\ res = NoRes
  /\ pc = "start"
  /\ lib = NoLib
  /\ calls = NoCalls

\* The first Encrypt / Sign call.
Issue ==
  /\ pc = "start"
  /\ \E m \in Payloads, f \in Footers, i \in Implicits :
       LET out == Seal(prim, rng, heldKey, m, f, i) IN
       /\ first' = CallRecord(out, rng, m, f, i)
       /\ rng' = out.rng
  /\ pc' = "issued"
  /\ UNCHANGED <<prim, heldKey, second, res, lib, calls>>

\* A second Encrypt / Sign call with the same payload and footer, on the
\* reader of the first call or on a fresh reader.
IssueAgain ==
  /\ pc = "issued"
  /\ \E i \in Implicits, r \in {rng} \cup StreamsOf(prim) :
       LET out == Seal(prim, r, heldKey, first.m, first.f, i) IN
       /\ second' = CallRecord(out, r, first.m, first.f, i)
       /\ rng' = out.rng
  /\ pc' = "reissued"
  /\ UNCHANGED <<prim, heldKey, first, res, lib, calls>>

\* The expected footers a caller may pass: the explored footers and, for a
\* token without footer section, the bytes its body segment decodes to.
FooterCandidates(tok) ==
  Footers \cup
    (IF ~HasFooterSection(tok, prim) /\ ~Base64Decode(Tail0(tok, prim)).err
     THEN {DecodedBody(tok, prim)} ELSE {})

\* Decrypt / Verify of the issued token.
Open ==
  /\ pc = "issued"
  /\ first.err = "ok"
  /\ \E f \in FooterCandidates(first.val), i \in Implicits :
       res' = ResRecord(Unseal(prim, heldKey, first.val, f, i), first.val, f, i,
                        "issued")
  /\ pc' = "done"
  /\ UNCHANGED <<prim, heldKey, rng, first, second, lib, calls>>

\* The positions at which a byte of the token is changed: the ends of the
\* prefix, of the body segment and of the footer segment, the '.', and the
\* end of the nonce.
ChangedPositions(tok) ==
  LET pl == Len(PrefixOf(prim))
      bl == Len(BodySegment(tok, prim))
  IN {k \in {1, pl, pl + 1, pl + 43, pl + bl, pl + bl + 1, pl + bl + 2,
             Len(tok)} : k >= 1 /\ k <= Len(tok)}

\* The bytes a byte is changed to: the neighbouring alphabet character (the
\* 6-bit value with its lowest bit flipped, 'B' for a byte outside the
\* alphabet) and '.'.
ChangedBytes(ch) ==
  {(IF Dec6(ch) = 255 THEN 66 ELSE Enc6(Dec6(ch) + 1 - 2 * (Dec6(ch) % 2))),
   DOT} \ {ch}

\* Decrypt / Verify of a valid issued token with one byte changed, with the
\* footer and implicit assertion it was issued for.
OpenModified ==
  /\ pc = "issued"
  /\ first.err = "ok"
  /\ Unseal(prim, heldKey, first.val, first.f, first.i).err = "ok"
  /\ \E pos \in ChangedPositions(first.val) :
       \E ch \in ChangedBytes(first.val[pos]) :
         LET tok == [first.val EXCEPT ![pos] = ch] IN
         res' = ResRecord(Unseal(prim, heldKey, tok, first.f, first.i), tok,
                          first.f, first.i, "modified")
  /\ pc' = "done"
  /\ UNCHANGED <<prim, heldKey, rng, first, second, lib, calls>>

\* Decoded body segments of hand-built tokens: the explored footers and
\* zero strings around the field lengths of the primitives.
CraftedBodies ==
  Footers \cup {Zeros(k) : k \in {1, 31, 32, 47, 48, 63, 64, 79, 80, 95, 96}}

\* Decrypt / Verify of a hand-built token without footer section.
OpenCrafted ==
  /\ pc = "start"
  /\ \E body \in CraftedBodies, f \in Footers :
       LET tok == PrefixOf(prim) \o Base64Encode(body) IN
       res' = ResRecord(Unseal(prim, heldKey, tok, f, <<>>), tok, f, <<>>,
                        "crafted")
  /\ pc' = "done"
  /\ UNCHANGED <<prim, heldKey, rng, first, second, lib, calls>>

\* The nil key of a primitive.
NilKeyOf(p) == IF p = "v3.public" THEN NilEcdsaKey ELSE NilKey

\* Encrypt / Sign called with a nil key.
IssueWithoutKey ==
  /\ pc = "start"
  /\ \E m \in Payloads, f \in Footers, i \in Implicits :
       res' = ResRecord(Seal(prim, rng, NilKeyOf(prim), m, f, i), <<>>, f, i,
                        "sealed without key")
  /\ pc' = "done"
  /\ UNCHANGED <<prim, heldKey, rng, first, second, lib, calls>>

\* Decrypt / Verify of the issued token called with a nil key.
OpenWithoutKey ==
  /\ pc = "issued"
  /\ first.err = "ok"
  /\ res' = ResRecord(Unseal(prim, NilKeyOf(prim), first.val, first.f, first.i),
                      first.val, first.f, first.i, "opened without key")
  /\ pc' = "done"
  /\ UNCHANGED <<prim, heldKey, rng, first, second, lib, calls>>

\* The key a caller uses with primitive p: the held key where it fits.
KeyFor(p) ==
  IF p \in LocalPrims /\ prim \in LocalPrims THEN heldKey
  ELSE CHOOSE k \in KeysOf(p) : TRUE

\* Decrypt / Verify of another primitive called on the issued token.
OpenAs ==
  /\ pc = "issued"
  /\ first.err = "ok"
  /\ \E p \in Prims \ {prim} :
       res' = [ResRecord(Unseal(p, KeyFor(p), first.val, first.f, first.i),
                         first.val, first.f, first.i, "foreign")
               EXCEPT !.by = p]
  /\ pc' = "done"
  /\ UNCHANGED <<prim, heldKey, rng, first, second, lib, calls>>

\* Tokens that do not start with the prefix of the primitive: the empty
\* token, the prefix without its last '.', the prefix in upper case "V" and
\* the prefixes of the other primitives, each but the first with a body.
UnprefixedTokens ==
  LET own == PrefixOf(prim)
      body == Base64Encode(Zeros(signatureSize))
  IN {<<>>, SubSeq(own, 1, Len(own) - 1) \o body, <<86>> \o Tail(own) \o body}
     \cup {PrefixOf(p) \o body : p \in Prims \ {prim}}

\* Decrypt / Verify called on a token without the prefix of the primitive.
OpenUnprefixed ==
  /\ pc = "start"
  /\ \E tok \in UnprefixedTokens, f \in Footers :
       res' = ResRecord(Unseal(prim, heldKey, tok, f, <<>>), tok, f, <<>>,
                        "unprefixed")
  /\ pc' = "done"
  /\ UNCHANGED <<prim, heldKey, rng, first, second, lib, calls>>

Next == Issue \/ IssueAgain \/ Open \/ OpenModified \/ OpenCrafted

Spec == Init /\ [][Next]_vars

\* The calls of a caller that misuses the API: a nil key, the token of
\* another primitive, a token without the prefix, a changed token.
MisuseNext ==
  \/ Issue \/ OpenModified
  \/ IssueWithoutKey \/ OpenWithoutKey \/ OpenAs \/ OpenUnprefixed

MisuseSpec == Init /\ [][MisuseNext]_vars

(***************************************************************************)
(* Library calls: the exported helpers and the key constructors called on  *)
(* their own, one call per behaviour, on inputs drawn from small sets.     *)
(***************************************************************************)
MaxPieces == 2
MaxPieceLen == 1

\* The sequences over S of length 0..n.
SeqsUpTo(S, n) == UNION {[1..k -> S] : k \in 0..n}

\* Pieces are byte strings over two byte values, tuples are sequences of
\* pieces.
PieceBytes == {0, 1}
Pieces == SeqsUpTo(PieceBytes, MaxPieceLen)
Tuples == SeqsUpTo(Pieces, MaxPieces)

LibInit ==
  /\ prim = "v3.local"
  /\ heldKey = LocalKeyA
  /\ rng = Zeros(2 * nonceLength)
  /\ first = NoCall
  /\ second = NoCall
  /\ res = NoRes
  /\ pc = "start"
  /\ lib = NoLib
  /\ calls = NoCalls

\* PreAuthenticationEncoding called on two tuples of pieces.
Encode ==
  /\ lib = NoLib
  /\ \E a \in Tuples, b \in Tuples :
       lib' = [op |-> "pae", a |-> a, b |-> b,
               outA |-> PreAuthenticationEncoding(a),
               outB |-> PreAuthenticationEncoding(b)]
  /\ UNCHANGED <<prim, heldKey, rng, first, second, res, pc, calls>>

MaxCompareLen == 2
CompareBytes == {0, 1, 2}
CompareInputs == SeqsUpTo(CompareBytes, MaxCompareLen)

\* SecureCompare called on two byte strings.
Compare ==
  /\ lib = NoLib
  /\ \E given \in CompareInputs, actual \in CompareInputs :
       lib' = [op |-> "compare", given |-> given, actual |-> actual,
               out |-> SecureCompare(given, actual)]
  /\ UNCHANGED <<prim, heldKey, rng, first, second, res, pc, calls>>

\* Seeds and readers: byte strings of 0 to KeyLength + MaxSeedExtra bytes.
MaxSeedExtra == 2
SeedInputs ==
  {[k \in 1..n |-> (v * k) % 256] : n \in 0..(KeyLength + MaxSeedExtra), v \in {1, 3}}

\* LocalKeyFromSeed called on a seed; copy only reads the seed.
FromSeed ==
  /\ lib = NoLib
  /\ \E seed \in SeedInputs :
       lib' = [op |-> "seed", seed |-> seed, seedAfter |-> seed,
               out |-> LocalKeyFromSeed(seed)]
  /\ UNCHANGED <<prim, heldKey, rng, first, second, res, pc, calls>>

\* GenerateLocalKey called on a reader.
Generate ==
  /\ lib = NoLib
  /\ \E r \in SeedInputs :
       lib' = [op |-> "generate", r |-> r, out |-> GenerateLocalKey(r)]
  /\ UNCHANGED <<prim, heldKey, rng, first, second, res, pc, calls>>

\* Encrypt called on a reader that yields fewer than nonceLength bytes.
EncryptStarved ==
  /\ lib = NoLib
  /\ \E p \in LocalPrims, m \in Payloads, f \in Footers :
       \E r \in {x \in SeedInputs : Len(x) < nonceLength} :
         lib' = [op |-> "encrypt", p |-> p, r |-> r,
                 out |-> Seal(p, r, LocalKeyA, m, f, <<>>)]
  /\ UNCHANGED <<prim, heldKey, rng, first, second, res, pc, calls>>

\* Field lengths of a build and decoded bodies that hold a nonce, a tag and
\* up to MaxFieldLen bytes of ciphertext, byte j of a body being j.
MaxFieldLen == 2
FieldLengths == 1..MaxFieldLen

\* Decrypt (v4.local), "Extract components", on a decoded body; the slice
\* expressions are in range for these lengths.
Extract ==
  /\ lib = NoLib
  /\ \E nl \in FieldLengths, ml \in FieldLengths, cl \in 0..MaxFieldLen :
       LET raw == [j \in 1..(nl + cl + ml) |-> j] IN
       /\ ml <= Len(raw) - ml
       /\ lib' = [op |-> "extract", raw |-> raw, nl |-> nl, ml |-> ml,
                  out |-> ExtractV4(raw, nl, ml)]
  /\ UNCHANGED <<prim, heldKey, rng, first, second, res, pc, calls>>

LibNext ==
  Encode \/ Compare \/ FromSeed \/ Generate \/ EncryptStarved \/ Extract

LibSpec == LibInit /\ [][LibNext]_vars

(***************************************************************************)
(* Concurrent callers: each caller makes one call with the shared key.  A  *)
(* call begins with its arguments in its own locals and finishes by        *)
(* reading the key and its locals; the steps of the callers interleave.    *)
(***************************************************************************)
Callers == {1, 2}

IdleCall == [at |-> "idle"]

\* The payloads, footers and tokens the callers pass.
SharedPayloads == {<<>>, SubSeq(PayloadText, 1, MaxPayloadLen)}
SharedFooters == {<<>>, <<123, 125>>}
SharedTokens ==
  {Seal(prim, Zeros(2 * nonceLength), heldKey, m, f, <<>>).val :
     m \in SharedPayloads, f \in SharedFooters}

ConcInit ==
  /\ prim \in Prims
  /\ heldKey \in KeysOf(prim)
  /\ rng = Zeros(2 * nonceLength)
  /\ first = NoCall
  /\ second = NoCall
  /\ res = NoRes
  /\ pc = "start"
  /\ lib = NoLib
  /\ calls = [c \in Callers |-> IdleCall]

\* The result of the call with the locals a and the key k.
RunCall(a, k) ==
  IF a.op = "seal"
  THEN LET out == Seal(prim, a.r, k, a.m, a.f, a.i)
       IN [val |-> out.val, err |-> out.err]
  ELSE LET out == Unseal(prim, k, a.tok, a.f, a.i)
       IN [val |-> out.val, err |-> out.err]

\* The locals a call works on: its own, whatever the other callers do.
LocalsLastBegun(c) ==
  IF \E d \in Callers \ {c} : calls[d].at # "idle"
  THEN LET d == CHOOSE d \in Callers \ {c} : calls[d].at # "idle"
       IN [calls[d] EXCEPT !.at = calls[c].at]
  ELSE calls[c]

LocalsOf(c) == calls[c]

\* A caller calls Encrypt / Sign with its own entropy reader.
BeginSeal ==
  \E c \in Callers :
    /\ calls[c].at = "idle"
    /\ \E m \in SharedPayloads, f \in SharedFooters, r \in StreamsOf(prim) :
         calls' = [calls EXCEPT ![c] =
                     [at |-> "running", op |-> "seal", m |-> m, f |-> f,
                      i |-> <<>>, tok |-> <<>>, r |-> r]]
    /\ UNCHANGED <<prim, heldKey, rng, first, second, res, pc, lib>>

\* A caller calls Decrypt / Verify on a token issued with the shared key.
BeginUnseal ==
  \E c \in Callers :
    /\ calls[c].at = "idle"
    /\ \E tok \in SharedTokens, f \in SharedFooters :
         calls' = [calls EXCEPT ![c] =
                     [at |-> "running", op |-> "unseal", m |-> <<>>, f |-> f,
                      i |-> <<>>, tok |-> tok, r |-> <<>>]]
    /\ UNCHANGED <<prim, heldKey, rng, first, second, res, pc, lib>>

\* The call of a caller reads the key and returns.
Finish ==
  \E c \in Callers :
    /\ calls[c].at = "running"
    /\ calls' = [calls EXCEPT ![c] =
                   [at |-> "done", out |-> RunCall(LocalsOf(c), heldKey)]
                   @@ calls[c]]
    /\ UNCHANGED <<prim, heldKey, rng, first, second, res, pc, lib>>

ConcNext == BeginSeal \/ BeginUnseal \/ Finish

ConcSpec == ConcInit /\ [][ConcNext]_vars

(***************************************************************************)
(* One entropy stream: GenerateLocalKey and then Encrypt calls that read   *)
(* from the same reader; lib keeps the bytes the reader held at first and  *)
(* calls the calls made.                                                   *)
(***************************************************************************)
MaxStreamEncrypts == 2

\* Readers of k, 32 + k, 64 + k, ... bytes for k = 0 and 31, byte j of a
\* reader being j.
StreamInputs ==
  {[j \in 1..(nonceLength * b + d) |-> j] :
     b \in 0..(MaxStreamEncrypts + 1), d \in {0, nonceLength - 1}}

StreamInit ==
  /\ prim \in LocalPrims
  /\ heldKey = NilKey
  /\ rng \in StreamInputs
  /\ first = NoCall
  /\ second = NoCall
  /\ res = NoRes
  /\ pc = "start"
  /\ lib = [op |-> "stream", r |-> rng]
  /\ calls = NoCalls

\* localKey, err := GenerateLocalKey(r)
GenerateOnStream ==
  /\ calls = NoCalls
  /\ LET out == GenerateLocalKey(rng) IN
     /\ heldKey' = out.val
     /\ rng' = out.rng
     /\ calls' = <<[op |-> "generate", val |-> out.val, err |-> out.err]>>
  /\ UNCHANGED <<prim, first, second, res, pc, lib>>

\* token, err := Encrypt(r, localKey, m, f, nil) on the same reader.
EncryptOnStream ==
  /\ Len(calls) >= 1
  /\ Len(calls) <= MaxStreamEncrypts
  /\ calls[1].err = "ok"
  /\ \E m \in SharedPayloads, f \in SharedFooters :
       LET out == Seal(prim, rng, heldKey, m, f, <<>>) IN
       /\ rng' = out.rng
       /\ calls' = Append(calls, [op |-> "encrypt", val |-> out.val,
                                  err |-> out.err])
  /\ UNCHANGED <<prim, heldKey, first, second, res, pc, lib>>

StreamNext == GenerateOnStream \/ EncryptOnStream

StreamSpec == StreamInit /\ [][StreamNext]_vars

(***************************************************************************)
(* Properties.                                                             *)
(***************************************************************************)
OpenedIssued == pc = "done" /\ res.how = "issued"
SameFooterAndImplicit == res.f = first.f /\ res.i = first.i
BothIssued == pc = "reissued" /\ first.err = "ok" /\ second.err = "ok"
SameArguments == first.m = second.m /\ first.f = second.f /\ first.i = second.i
ReturnedError(r) == r.err # "ok" /\ r.err # "panic"

\* C1: Decrypt(key, Encrypt(rng, key, m, f, i), f, i) returns m without
\* error in v3.local, v4.local and v4x.local, for a reader that yields 32
\* bytes.
LocalRoundTrip ==
  /\ (prim \in LocalPrims /\ pc = "issued") => first.err = "ok"
  /\ (prim \in LocalPrims /\ OpenedIssued /\ SameFooterAndImplicit)
       => (res.err = "ok" /\ res.val = first.m)

LocalRoundTripWitness ==
  /\ prim \in LocalPrims /\ OpenedIssued /\ SameFooterAndImplicit
  /\ first.m # <<>> /\ first.f # <<>> /\ first.i # <<>>
  /\ res.err = "ok" /\ res.val = first.m

\* C2: Verify(Sign(m, sk, f, i), pk, f, i) returns m without error in
\* v3.public and v4.public, whatever r and s the signature step produced.
PublicRoundTrip ==
  (prim \in PublicPrims /\ OpenedIssued /\ SameFooterAndImplicit)
    => (res.err = "ok" /\ res.val = first.m)

\* C3: the body of a v3.public token is exactly len(message) + 96 bytes, r
\* and s being 48 bytes each, and Verify's split recovers the same r and s.
SignV3SignatureWidth ==
  (prim = "v3.public" /\ pc = "issued" /\ first.err = "ok")
    => /\ Len(DecodedBody(first.val, prim)) = Len(first.m) + signatureSize
       /\ SubSeq(DecodedBody(first.val, prim), 1, Len(first.m)) = first.m

\* C4: Decrypt of an issued token with a footer or implicit assertion other
\* than the one it was issued for fails with the authentication failure or
\* the footer-mismatch failure.
OtherFooterOrImplicitRejected ==
  (prim \in LocalPrims /\ OpenedIssued /\ ~SameFooterAndImplicit)
    => res.err \in {ErrPreAuth, ErrFooterMismatch}

\* C5: with a non-empty expected footer, Decrypt and Verify return an error
\* for every token without footer section; they return no payload and do
\* not abort.
MissingFooterRejected ==
  (pc = "done" /\ res.f # <<>> /\ HasPrefix(res.tok, PrefixOf(prim))
   /\ ~HasFooterSection(res.tok, prim))
    => ReturnedError(res)

\* The least length of a decoded body: nonce and tag, or the signature.
MinBodyLen(p) ==
  CASE p = "v3.local" -> nonceLength + macLengthV3
    [] p = "v4.local" -> nonceLength + macLengthV4
    [] p = "v4x.local" -> nonceLength + macLengthV4x
    [] p = "v3.public" -> signatureSize
    [] p = "v4.public" -> Ed25519SignatureSize

\* C6: Decrypt and Verify return an error for every token whose decoded
\* body is shorter than the fields of the primitive.
ShortBodyRejected ==
  (pc = "done" /\ HasPrefix(res.tok, PrefixOf(prim))
   /\ ~Base64Decode(BodySegment(res.tok, prim)).err
   /\ Len(DecodedBody(res.tok, prim)) < MinBodyLen(prim))
    => ReturnedError(res)

\* C7: Decrypt / Verify of a valid token with exactly one byte changed, with
\* the same key, footer and implicit assertion, fails.
ChangedByteRejected ==
  (pc = "done" /\ res.how = "modified") => res.err # "ok"

\* C8: two Encrypt calls with the same key, payload, footer and implicit
\* assertion whose readers yield different nonces return different tokens.
NonceRandomization ==
  (prim \in LocalPrims /\ BothIssued /\ SameArguments /\ first.n # second.n)
    => first.val # second.val

NonceRandomizationWitness ==
  /\ prim \in LocalPrims /\ BothIssued /\ SameArguments
  /\ first.n # second.n /\ first.val # second.val

NonceOf(c) == SubSeq(DecodedBody(c.val, prim), 1, nonceLength)

EncryptFunctionOfNonce ==
  /\ (prim \in LocalPrims /\ first.err = "ok")
       => (first.drawn = nonceLength /\ NonceOf(first) = first.n)
  /\ (prim \in LocalPrims /\ second.err = "ok")
       => (second.drawn = nonceLength /\ NonceOf(second) = second.n)
  /\ (prim \in LocalPrims /\ BothIssued /\ SameArguments /\ first.n = second.n)
       => first.val = second.val

EncryptFunctionOfNonceWitness ==
  /\ prim \in LocalPrims /\ BothIssued /\ SameArguments
  /\ first.n = second.n /\ first.n # Zeros(nonceLength)
  /\ first.val = second.val /\ first.drawn = nonceLength

\* C11: PreAuthenticationEncoding returns different byte strings for tuples
\* that differ in the number of pieces, in the length of a piece or in a
\* byte.
PaeInjective ==
  (lib.op = "pae" /\ lib.a # lib.b) => lib.outA # lib.outB

\* Two tuples with the same bytes in the same order, one byte moved from a
\* piece to the piece next to it.
PaeInjectiveWitness ==
  /\ lib.op = "pae" /\ lib.a = <<<<1>>, <<>>>> /\ lib.b = <<<<>>, <<1>>>>
  /\ lib.outA # lib.outB

\* b is the little-endian byte string of n: the lowest byte first.
RECURSIVE IsLittleEndian(_, _)
IsLittleEndian(b, n) ==
  IF Len(b) = 0 THEN n = 0
  ELSE b[1] = n % 256 /\ IsLittleEndian(Tail(b), n \div 256)

\* The sum of 8 + len(piece) over the first k pieces of t.
RECURSIVE FramedLen(_, _)
FramedLen(t, k) == IF k = 0 THEN 0 ELSE FramedLen(t, k - 1) + 8 + Len(t[k])

PaeLayout(t, out) ==
  /\ Len(out) = 8 + FramedLen(t, Len(t))
  /\ IsLittleEndian(SubSeq(out, 1, 8), Len(t))
  /\ \A k \in 1..Len(t) :
       LET off == 8 + FramedLen(t, k - 1) IN
       /\ IsLittleEndian(SubSeq(out, off + 1, off + 8), Len(t[k]))
       /\ SubSeq(out, off + 9, off + 8 + Len(t[k])) = t[k]
  /\ (t = <<>> => out = Zeros(8))

\* C12: PreAuthenticationEncoding returns LE64(n), then LE64(len(p)) and p for
\* each piece p in order, 8 + sum of (8 + len(p)) bytes in all; the empty
\* tuple gives 8 zero bytes and an empty piece adds 8 zero bytes.
PaeFormat ==
  lib.op = "pae" => (PaeLayout(lib.a, lib.outA) /\ PaeLayout(lib.b, lib.outB))

PaeFormatWitness ==
  /\ lib.op = "pae" /\ lib.a = <<<<>>, <<1>>>> /\ lib.b = <<>>
  /\ lib.outA = <<2, 0, 0, 0, 0, 0, 0, 0>> \o Zeros(8)
                 \o <<1, 0, 0, 0, 0, 0, 0, 0, 1>>
  /\ lib.outB = Zeros(8)

\* C13: SecureCompare(given, actual) is true exactly when the two byte
\* strings have the same length and the same bytes.
SecureCompareExact ==
  lib.op = "compare"
    => (lib.out <=> (/\ Len(lib.given) = Len(lib.actual)
                     /\ \A k \in 1..Len(lib.given) : lib.given[k] = lib.actual[k]))

\* One input empty and the other a zero byte: not equal.
SecureCompareExactWitness ==
  /\ lib.op = "compare" /\ lib.given = <<0>> /\ lib.actual = <<>>
  /\ lib.out = FALSE

\* The number of '.' in s.
CountDots(s) == Cardinality({k \in 1..Len(s) : s[k] = DOT})

\* A returned token starts with the prefix of the primitive; what follows
\* holds no '.' for an empty footer and one '.' otherwise, and apart from it
\* only characters of the base64url alphabet ('=' is not one of them).
TokenShape(c) ==
  c.err = "ok" =>
    LET t == Tail0(c.val, prim) IN
    /\ HasPrefix(c.val, PrefixOf(prim))
    /\ CountDots(t) = (IF c.f = <<>> THEN 0 ELSE 1)
    /\ \A k \in 1..Len(t) : t[k] = DOT \/ Dec6(t[k]) # 255

\* C14: every token returned by Encrypt or Sign begins with the prefix of its
\* primitive and has, after it, no '.' when the footer is empty and exactly
\* one when it is not; body and footer segment hold no '.' and no '='.
TokenPrefixAndDots == TokenShape(first) /\ TokenShape(second)

TokenPrefixAndDotsWitness ==
  /\ pc = "reissued" /\ first.err = "ok" /\ second.err = "ok"
  /\ first.f # <<>> /\ CountDots(Tail0(first.val, prim)) = 1
  /\ HasPrefix(second.val, PrefixOf(prim))

\* The part of a token after the body segment: empty, or '.' and the footer
\* segment.
FooterPart(tok, p) ==
  LET t == Tail0(tok, p) IN
  SubSeq(t, Len(BodySegment(tok, p)) + 1, Len(t))

LocalLayout(c) ==
  (prim \in LocalPrims /\ c.err = "ok") =>
    LET body == DecodedBody(c.val, prim)
        part == FooterPart(c.val, prim)
        footer == Base64Decode(Tail(part))
    IN /\ ~Base64Decode(BodySegment(c.val, prim)).err
       /\ Len(body) = nonceLength + Len(c.m) + (MinBodyLen(prim) - nonceLength)
       /\ SubSeq(body, 1, nonceLength) = c.n
       /\ IF c.f = <<>> THEN part = <<>>
          ELSE part # <<>> /\ part[1] = DOT /\ ~footer.err /\ footer.buf = c.f
       /\ Len(c.val) = Len(PrefixOf(prim)) + EncodedLen(Len(body))
                         + (IF c.f = <<>> THEN 0 ELSE 1 + EncodedLen(Len(c.f)))

\* C15: the body segment of a local token decodes to n || c || t with 32
\* bytes of nonce, len(payload) bytes of ciphertext and 48 (v3) or 32 (v4,
\* v4x) bytes of tag; a non-empty footer follows as '.' and a segment that
\* decodes to the footer; the token is as long as the prefix and the
\* unpadded base64 lengths of these parts.
LocalWireLayout == LocalLayout(first) /\ LocalLayout(second)

LocalWireLayoutWitness ==
  /\ prim = "v3.local" /\ pc = "issued" /\ first.err = "ok"
  /\ first.m # <<>> /\ first.f # <<>>
  /\ Len(DecodedBody(first.val, prim)) = nonceLength + Len(first.m) + macLengthV3

\* C16: two tokens made with the same key, nonce, payload and footer and two
\* implicit assertions have the same length, the same footer part and the
\* same body bytes before the tag or signature.
ImplicitNotSerialized ==
  (BothIssued /\ first.n = second.n /\ first.i # second.i) =>
    LET b1 == DecodedBody(first.val, prim)
        b2 == DecodedBody(second.val, prim)
        tagLen == IF prim \in LocalPrims THEN MinBodyLen(prim) - nonceLength
                  ELSE MinBodyLen(prim)
    IN /\ Len(first.val) = Len(second.val)
       /\ FooterPart(first.val, prim) = FooterPart(second.val, prim)
       /\ Len(b1) = Len(b2)
       /\ SubSeq(b1, 1, Len(b1) - tagLen) = SubSeq(b2, 1, Len(b2) - tagLen)

\* C17: LocalKeyFromSeed returns an error and no key for a seed shorter than
\* 32 bytes, and for a longer seed the key made of its first 32 bytes; the
\* seed is left as it was.
SeedToKey ==
  lib.op = "seed" =>
    /\ lib.seedAfter = lib.seed
    /\ IF Len(lib.seed) < 32
       THEN ReturnedError(lib.out) /\ lib.out.val = NilKey
       ELSE /\ lib.out.err = "ok"
            /\ Len(lib.out.val) = 32
            /\ lib.out.val = SubSeq(lib.seed, 1, 32)

SeedToKeyWitness ==
  /\ lib.op = "seed" /\ Len(lib.seed) = 33 /\ lib.out.err = "ok"
  /\ lib.out.val = SubSeq(lib.seed, 1, 32) /\ lib.seed[33] # lib.seed[1]

\* C18: on a reader that yields fewer than 32 bytes GenerateLocalKey returns
\* an error and no key, and Encrypt returns an error and an empty token.
EntropyFailureSurfaced ==
  /\ (lib.op = "generate" /\ Len(lib.r) < 32)
       => (ReturnedError(lib.out) /\ lib.out.val = NilKey)
  /\ (lib.op = "encrypt" /\ Len(lib.r) < 32)
       => (ReturnedError(lib.out) /\ lib.out.val = <<>>)

EntropyFailureSurfacedWitness ==
  /\ lib.op = "encrypt" /\ lib.p = "v4x.local" /\ Len(lib.r) = 31
  /\ lib.out.err = ErrSeed /\ lib.out.val = <<>>

\* The errors that report a missing key; a nil byte-slice key (v4.local) is
\* a key of length 0.
KeyMissingErrors == {ErrKeyNil, ErrKeyLength, ErrSignNilKey, ErrPublicKeyNil}

\* C19: every operation called with a nil key returns the key-missing error
\* and no result, and does not abort.
NilKeyRejected ==
  (pc = "done" /\ res.how \in {"sealed without key", "opened without key"})
    => (res.err \in KeyMissingErrors /\ res.val = <<>>)

FooterSectionUnexpected ==
  (/\ pc = "done" /\ res.f = <<>>
   /\ HasPrefix(res.tok, PrefixOf(prim)) /\ HasFooterSection(res.tok, prim))
    => (res.err \notin {"ok", "panic"} /\ res.val = <<>>)

\* A v3.local token issued with a footer and opened with its own implicit
\* assertion and the empty footer.
FooterSectionUnexpectedWitness ==
  /\ pc = "done" /\ res.how = "issued" /\ prim = "v3.local"
  /\ first.f # <<>> /\ res.tok = first.val /\ res.i = first.i /\ res.f = <<>>
  /\ res.err = ErrInvalidBody

TagLength(p) ==
  CASE p = "v3.local" -> macLengthV3
    [] p = "v4.local" -> macLengthV4
    [] p = "v4x.local" -> macLengthV4x

\* The nonce, ciphertext and tag a decoded body of a local token holds.
BodyFields(p, body) ==
  [n |-> SubSeq(body, 1, nonceLength),
   c |-> SubSeq(body, nonceLength + 1, Len(body) - TagLength(p)),
   t |-> SubSeq(body, Len(body) - TagLength(p) + 1, Len(body))]

\* The tag over PAE(prefix, n, c, footer, implicit) under the key k.
ExpectedTag(p, k, n, c, f, i) ==
  CASE p = "v3.local" -> macV3(kdfV3(k, n).ak, LocalPrefixV3, n, c, f, i)
    [] p = "v4.local" -> macV4(kdfV4(k, n).ak, LocalPrefixV4, n, c, f, i)
    [] p = "v4x.local" ->
         LET d == kdfV4x(k, n)
         IN macV4x(AuthKeyV4x(d.ek, d.n2), LocalPrefixV4x, n, c, f, i)

\* The tag of the token of the Decrypt call equals the expected tag.
TagMatches ==
  LET b == BodyFields(prim, DecodedBody(res.tok, prim))
  IN b.t = ExpectedTag(prim, heldKey, b.n, b.c, res.f, res.i)

\* C23: Decrypt returns a payload only when the tag of the token equals the
\* tag computed over PAE(prefix, n, c, footer, implicit); when the tags
\* differ it returns the pre-authentication error and no payload, nothing
\* being decrypted.
TagComparedBeforeDecrypt ==
  (pc = "done" /\ prim \in LocalPrims) =>
    /\ res.err = "ok" => TagMatches
    /\ res.err = ErrPreAuth => (~TagMatches /\ res.val = <<>>)

\* A valid v3.local token with a changed byte of the tag.
TagComparedBeforeDecryptWitness ==
  /\ pc = "done" /\ prim = "v3.local" /\ res.how = "modified"
  /\ res.err = ErrPreAuth /\ res.val = <<>> /\ ~TagMatches
  /\ BodyFields(prim, DecodedBody(res.tok, prim)).c
       = BodyFields(prim, DecodedBody(first.val, prim)).c

\* C24: with a non-empty expected footer the tail of the token is cut at its
\* first '.': a returned payload comes from the segment before it, with the
\* segment after it decoding to the expected footer, and a tail with two or
\* more '.' is rejected by the footer checks, the segment after the first
\* '.' being no base64.
SplitAtFirstDot ==
  (/\ pc = "done" /\ res.f # <<>> /\ res.by = prim
   /\ HasPrefix(res.tok, PrefixOf(prim))) =>
    /\ res.err = "ok" =>
         /\ HasFooterSection(res.tok, prim)
         /\ Base64Decode(Tail(FooterPart(res.tok, prim))).buf = res.f
         /\ Len(res.val) = Len(DecodedBody(res.tok, prim)) - MinBodyLen(prim)
    /\ CountDots(Tail0(res.tok, prim)) >= 2 =>
         (res.err \in {ErrFooterMissing, ErrFooterEncoding} /\ res.val = <<>>)

\* A valid v3.local token with footer in which a byte of the body segment
\* was changed to '.'.
SplitAtFirstDotWitness ==
  /\ pc = "done" /\ prim = "v3.local" /\ res.how = "modified"
  /\ res.f # <<>> /\ CountDots(Tail0(res.tok, prim)) = 2
  /\ IndexDot(Tail0(res.tok, prim)) > 0
  /\ res.err = ErrFooterEncoding

\* The footer segment of the token of the Decrypt / Verify call decodes to
\* bytes other than the expected footer.
FooterDiffers ==
  LET footer == Base64Decode(Tail(FooterPart(res.tok, prim)))
  IN ~footer.err /\ footer.buf # res.f

\* C25: with a non-empty expected footer, the footer-missing error is
\* returned exactly for tokens without footer section and the
\* footer-mismatch error exactly for tokens whose footer section decodes to
\* other bytes than the expected footer.
FooterFailuresDistinct ==
  (/\ pc = "done" /\ res.f # <<>> /\ res.by = prim
   /\ HasPrefix(res.tok, PrefixOf(prim))) =>
    /\ res.err = ErrFooterMissing <=> ~HasFooterSection(res.tok, prim)
    /\ res.err = ErrFooterMismatch
         <=> (HasFooterSection(res.tok, prim) /\ FooterDiffers)

StreamBlock(k) == SubSeq(lib.r, nonceLength * (k - 1) + 1, nonceLength * k)

\* C27: on one entropy stream call k (GenerateLocalKey first, then Encrypt
\* calls) succeeds exactly when the stream holds 32 * k bytes and then uses
\* bytes 32 * (k - 1) to 32 * k - 1 of it, as the key or as the nonce of the
\* token, and 32 * k bytes have left the reader.
StreamReadInOrder ==
  lib.op = "stream" =>
    \A k \in 1..Len(calls) :
      IF Len(lib.r) >= nonceLength * k
      THEN /\ calls[k].err = "ok"
           /\ IF k = 1
              THEN calls[k].val = StreamBlock(k) /\ heldKey = StreamBlock(k)
              ELSE SubSeq(DecodedBody(calls[k].val, prim), 1, nonceLength)
                     = StreamBlock(k)
           /\ k = Len(calls)
                => rng = SubSeq(lib.r, nonceLength * k + 1, Len(lib.r))
      ELSE /\ calls[k].err \in {ErrGenerateKey, ErrSeed}
           /\ calls[k].val = <<>>

\* GenerateLocalKey and one Encrypt have succeeded on a stream too short for
\* the second Encrypt, which has failed.
StreamReadInOrderWitness ==
  /\ lib.op = "stream" /\ Len(calls) = 3 /\ Len(lib.r) = 3 * nonceLength - 1
  /\ calls[1].err = "ok" /\ calls[2].err = "ok" /\ calls[3].err = ErrSeed
  /\ heldKey = StreamBlock(1)
  /\ SubSeq(DecodedBody(calls[2].val, prim), 1, nonceLength) = StreamBlock(2)

\* C28: the decoded body of a v4.local token is cut into the nonce, its
\* first nonce_length bytes, the tag, its last mac_length bytes, and the
\* ciphertext, the bytes between them, whatever the two lengths are.
V4BodyPartition ==
  lib.op = "extract" =>
    /\ lib.out.n = SubSeq(lib.raw, 1, lib.nl)
    /\ lib.out.t = SubSeq(lib.raw, Len(lib.raw) - lib.ml + 1, Len(lib.raw))
    /\ lib.out.c = SubSeq(lib.raw, lib.nl + 1, Len(lib.raw) - lib.ml)
    /\ lib.out.n \o lib.out.c \o lib.out.t = lib.raw

\* The same for the builds in which the two lengths are equal, as they are
\* in the source.
V4BodyPartitionEqualLengths ==
  (lib.op = "extract" /\ lib.nl = lib.ml) =>
    /\ lib.out.c = SubSeq(lib.raw, lib.nl + 1, Len(lib.raw) - lib.ml)
    /\ lib.out.n \o lib.out.c \o lib.out.t = lib.raw

\* The encryption key and nonce v4x.local derives for the token tok.
DerivedV4x(tok) ==
  kdfV4x(heldKey, BodyFields("v4x.local", DecodedBody(tok, "v4x.local")).n)

\* Byte k of dst is byte k of src XORed with byte k of key-stream block 1.
XoredWithBlock1(tok, src, dst) ==
  LET d == DerivedV4x(tok)
      blk == ChaChaBlock(d.ek, d.n2, 1)
  IN /\ Len(dst) = Len(src)
     /\ \A k \in 1..Len(src) : dst[k] = XorByte(src[k], blk[k])

\* The tag of tok is the MAC under the first 32 bytes of key-stream block 0.
TaggedWithBlock0(tok, f, i) ==
  LET d == DerivedV4x(tok)
      b == BodyFields("v4x.local", DecodedBody(tok, "v4x.local"))
      ak == SubSeq(ChaChaBlock(d.ek, d.n2, 0), 1, 32)
  IN b.t = macV4x(ak, LocalPrefixV4x, b.n, b.c, f, i)

\* C29: v4x.local Encrypt and Decrypt both take the auth key from the first
\* 32 bytes of key-stream block 0 and both XOR byte k of the payload or of
\* the ciphertext with byte k of key-stream block 1.
V4xKeyStreamPositions ==
  prim = "v4x.local" =>
    /\ (pc = "issued" /\ first.err = "ok") =>
         /\ XoredWithBlock1(first.val, first.m,
              BodyFields(prim, DecodedBody(first.val, prim)).c)
         /\ TaggedWithBlock0(first.val, first.f, first.i)
    /\ (pc = "done" /\ res.err = "ok") =>
         /\ XoredWithBlock1(res.tok,
              BodyFields(prim, DecodedBody(res.tok, prim)).c, res.val)
         /\ TaggedWithBlock0(res.tok, res.f, res.i)

\* A v4x.local token for a payload of the greatest explored length, issued
\* and decrypted.
V4xKeyStreamPositionsWitness ==
  /\ prim = "v4x.local" /\ pc = "done" /\ res.how = "issued"
  /\ first.err = "ok" /\ Len(first.m) = MaxPayloadLen
  /\ res.err = "ok" /\ res.val = first.m

\* The failure the checks of Decrypt give for the call recorded in res when
\* they are made in the order key, empty token, prefix, footer presence,
\* footer encoding, footer equality, body encoding, tag: the error of the
\* first check that fails, "ok" when none does, and "short" when the decoded
\* body cannot hold a nonce and a tag.
FirstFailure ==
  LET footer == Base64Decode(Tail(FooterPart(res.tok, prim)))
      body == Base64Decode(IF res.f # <<>> THEN BodySegment(res.tok, prim)
                           ELSE Tail0(res.tok, prim))
  IN IF res.how = "opened without key" THEN ErrKeyNil
     ELSE IF res.tok = <<>>
          THEN (IF res.by = "v4.local" THEN ErrInputNil ELSE ErrTokenBlank)
     ELSE IF ~HasPrefix(res.tok, PrefixOf(res.by)) THEN ErrInvalidToken
     ELSE IF res.f # <<>> /\ ~HasFooterSection(res.tok, prim)
          THEN ErrFooterMissing
     ELSE IF res.f # <<>> /\ footer.err THEN ErrFooterEncoding
     ELSE IF res.f # <<>> /\ footer.buf # res.f THEN ErrFooterMismatch
     ELSE IF body.err THEN ErrInvalidBody
     ELSE IF Len(body.buf) < MinBodyLen(prim) THEN "short"
     ELSE IF ~TagMatches THEN ErrPreAuth
     ELSE "ok"

\* C30: Decrypt returns the error of the first check that fails in the order
\* nil key, empty token, prefix, footer presence, footer encoding, footer
\* equality, body encoding, tag equality.
DecryptCheckOrder ==
  (/\ pc = "done" /\ res.by \in LocalPrims /\ res.how # "sealed without key"
   /\ FirstFailure # "short")
    => res.err = FirstFailure

\* The part of C30 about a token that fails two checks: a token with a
\* footer section that is not the expected footer gets a footer error
\* whatever its tag is.
FooterFailureBeforeTag ==
  (/\ pc = "done" /\ res.by = prim /\ prim \in LocalPrims /\ res.f # <<>>
   /\ HasPrefix(res.tok, PrefixOf(prim)) /\ res.how # "opened without key"
   /\ IndexDot(Tail0(res.tok, prim)) > 0
   /\ Base64Decode(Tail(FooterPart(res.tok, prim))).buf # res.f)
    => res.err \in {ErrFooterEncoding, ErrFooterMismatch}

=============================================================================
